---- MODULE Spec2Model ----
(***************************************************************************)
(* Model of the mission data-budget simulator (src/main.py).               *)
(*                                                                         *)
(* The program folds process_row over the rows of a mission log.  Each row *)
(* carries a timestamp, a duration and an event; the fold keeps a          *)
(* MissionState of counters and three optional session start times.        *)
(*                                                                         *)
(* Numbers.  The program computes with Python floats.  Every quantity it   *)
(* adds to a counter is a rational multiple of a whole number of seconds:  *)
(*   SBAND_BPS  = 100000 / (1.3 * 1.2 * 8/7) = 2187500/39 bit/s            *)
(*   UHF_BPS    =   9600 / (1.3 * 1.2 * 8/7) =   70000/13 bit/s            *)
(*   summaries  = 1400 / 10                  =        140 bit/s            *)
(*   burst      = 8 * 10 * 2048 * 2048 / 8   =   41943040 bit              *)
(* All four are whole multiples of 20/39 bit, so the model holds every     *)
(* counter as an exact integer number of units of 20/39 bit (FixedPoint).  *)
(* Timestamps and durations are whole seconds.  The model is therefore the *)
(* exact-arithmetic reading of the program; float rounding is not modelled.*)
(***************************************************************************)
EXTENDS Integers, Sequences, FiniteSets, TLC

\* ---------------------------------------------------------------- bounds
\* Number of rows the reader yields before the stream is exhausted.
MaxRows == 4

\* ------------------------------------------------------------- constants
PHOTOS_DURING_RDA == 8
BITS_PER_PIXEL == 10
IMAGE_SIZE == 2048 * 2048
RDA_ACQUIRED_DATA == PHOTOS_DURING_RDA * BITS_PER_PIXEL * IMAGE_SIZE
LOSSY_COMPRESSION_RATE == 8

SUMMARY_FRAME_SIZE == 1400
SUMMARY_COLLECTION_PERIOD_S == 10

\* ENDURO_PROT_OVERHEAD * (1 / FEC_RATE) = 1.3 * 1.2 * 8/7, as a fraction.
COMM_OVERHEAD_NUM == 13 * 12 * 8
COMM_OVERHEAD_DEN == 10 * 10 * 7
SBAND_BPS_BASE == 100 * 10 * 10 * 10
UHF_BPS_BASE == 9600

\* num/den bits as a whole number of units of 20/39 bit.  Exact for every
\* quantity of the program (see the header); the division order keeps the
\* intermediate products inside 32 bits.
FixedPoint(num, den) == ((num \div 20) * 39) \div den

SBAND_BPS == FixedPoint(SBAND_BPS_BASE * COMM_OVERHEAD_DEN, COMM_OVERHEAD_NUM)
UHF_BPS == FixedPoint(UHF_BPS_BASE * COMM_OVERHEAD_DEN, COMM_OVERHEAD_NUM)

E_START_SIMULATION == "start_simulation"
E_PREP_START_RDA == "prep_start_rda"
E_PREP_START_S_BAND == "prep_start_s_band"
E_PREP_START_UHF == "prep_start_uhf"
E_RDA_END == "rda_end"
E_RDA_START == "rda_start"
E_S_BAND_COM_END == "s_band_com_end"
E_S_BAND_COM_START == "s_band_com_start"
E_SHADOW_ENTER == "shadow_enter"
E_SHADOW_EXIT == "shadow_exit"
E_UHF_COM_END == "uhf_com_end"
E_UHF_COM_START == "uhf_com_start"

\* ----------------------------------------------------------------- inputs
\* Optional[datetime]: None is the empty tuple, a set start time t is <<t>>.
None == <<>>
Some(t) == <<t>>

\* Timestamps (seconds from an epoch) and row durations (seconds) a row may
\* carry after normalize_time / normalize_duration.  Timestamps are not
\* checked for order by the program, so rows draw them freely.
Times == {0, 60, 900}
Durations == {0, 3600}

\* The values normalize_event can return: the twelve recognised kinds and a
\* stand-in for every other string.
E_OTHER == "unknown_event"
PrepEvents == {E_PREP_START_RDA, E_PREP_START_S_BAND, E_PREP_START_UHF}
ShadowEvents == {E_SHADOW_ENTER, E_SHADOW_EXIT}
Events ==
    {E_START_SIMULATION, E_RDA_START, E_RDA_END, E_S_BAND_COM_START,
     E_S_BAND_COM_END, E_UHF_COM_START, E_UHF_COM_END, E_OTHER}
        \cup PrepEvents \cup ShadowEvents

Rows == [time : Times, duration : Durations, event : Events]

Subsystems == {"rda", "s_band", "uhf"}

\* ------------------------------------------------------------------ state
VARIABLES
    state,      \* the MissionState instance
    ROW_IDX,    \* the module-level row counter
    row,        \* the row the reader yielded last (None before the first)
    rows_read,  \* how many rows the reader has yielded
    status,     \* "running", "raised" (uncaught ValueError) or "done"
    error,      \* None, or the ValueError raised: its kind and row index
    prev,       \* history: state as it was before the last row
    opens,      \* history: successful session opens per subsystem
    closes,     \* history: successful session closes per subsystem
    session_seconds,  \* history: summed elapsed seconds of closed sessions
    negative_elapsed  \* history: some downlink session closed before its start

vars ==
    <<state, ROW_IDX, row, rows_read, status, error, prev, opens, closes,
      session_seconds, negative_elapsed>>

\* The history variables no row of the given kind touches.
hist == <<opens, closes, session_seconds, negative_elapsed>>

MissionState ==
    [s_band_start |-> None, uhf_band_start |-> None, rda_start |-> None,
     stored_telemetry |-> 0, sent_telemetry |-> 0,
     stored_summaries |-> 0, sent_summaries |-> 0, wasted_uhf_band |-> 0,
     total_images |-> 0, stored_image_data |-> 0, sent_image_data |-> 0,
     wasted_s_band |-> 0]

Init ==
    /\ state = MissionState
    /\ ROW_IDX = 1
    /\ row = None
    /\ rows_read = 0
    /\ status = "running"
    /\ error = None
    /\ prev = MissionState
    /\ opens = [s \in Subsystems |-> 0]
    /\ closes = [s \in Subsystems |-> 0]
    /\ session_seconds = [s \in Subsystems |-> 0]
    /\ negative_elapsed = FALSE

\* ---------------------------------------------------------------- helpers
Min(a, b) == IF a <= b THEN a ELSE b
Max(a, b) == IF a >= b THEN a ELSE b

\* Variants of the two checks that never raise.
check_is_opened_never_raises(value) == TRUE
check_is_closed_never_raises(value) == TRUE

\* check_is_opened / check_is_closed return normally (TRUE) or raise (FALSE).
check_is_opened(value) == value # None
check_is_closed(value) == value = None

\* Variant of the accrual that counts one frame more than the duration
\* covers (a frame at both ends of the interval).
SummaryAccrual_ExtraFrame(duration) ==
    FixedPoint(SUMMARY_FRAME_SIZE * (duration + SUMMARY_COLLECTION_PERIOD_S),
               SUMMARY_COLLECTION_PERIOD_S)

\* Line 223: the summary bits a row of the given duration accrues.
SummaryAccrual(duration) ==
    FixedPoint(SUMMARY_FRAME_SIZE * duration, SUMMARY_COLLECTION_PERIOD_S)

\* Variant of the burst size that divides by the lossless rate 1.7 of the
\* earlier draft (lines 19 and 130) instead of the lossy rate.
BurstImageData_Lossless == FixedPoint((RDA_ACQUIRED_DATA \div 17) * 10, 1)

\* Line 252: the image bits one completed acquisition adds.
BurstImageData == FixedPoint(RDA_ACQUIRED_DATA, LOSSY_COMPRESSION_RATE)

\* Variants of the split: wasted without the clamp at zero, sent as the whole
\* capacity, sent as the whole backlog.
WastedDelta_NoMax(potential_transfer, needed) == potential_transfer - needed
SentDelta_NoMin(potential_transfer, needed) == potential_transfer
SentDelta_AllNeeded(potential_transfer, needed) == needed

\* Lines 269-270 and 285-286: the split of a session's capacity.
WastedDelta(potential_transfer, needed) == Max(potential_transfer - needed, 0)
SentDelta(potential_transfer, needed) == Min(needed, potential_transfer)

\* Variant of the S-band capacity that uses the UHF rate.
SBandPotentialTransfer_UhfRate(delta) == UHF_BPS * delta

\* Lines 263 and 282: the capacity of a session that lasted delta seconds.
SBandPotentialTransfer(delta) == SBAND_BPS * delta
UhfPotentialTransfer(delta) == UHF_BPS * delta

\* Variant of the UHF backlog read from the mission state as it was on entry
\* to process_row, before the accrual of line 223.
UhfBacklog_BeforeAccrual(st) == state.stored_summaries - state.sent_summaries

\* Lines 267 and 283: the outstanding backlog of mission state st.
SBandBacklog(st) == st.stored_image_data - st.sent_image_data
UhfBacklog(st) == st.stored_summaries - st.sent_summaries

\* Lines 261-270: the S-band close applied to mission state st.
SBandTransfer(st, potential_transfer, needed) ==
    [st EXCEPT
        !.s_band_start = None,
        !.wasted_s_band = @ + WastedDelta(potential_transfer, needed),
        !.sent_image_data = @ + SentDelta(potential_transfer, needed)]

\* Variant of the UHF close pasted from the S-band branch with the counters
\* left as they were there.
UhfTransfer_SBandCounters(st, potential_transfer, needed) ==
    [st EXCEPT
        !.uhf_band_start = None,
        !.wasted_s_band = @ + WastedDelta(potential_transfer, needed),
        !.sent_image_data = @ + SentDelta(potential_transfer, needed)]

\* Lines 279-286: the UHF close applied to mission state st.
UhfTransfer(st, potential_transfer, needed) ==
    [st EXCEPT
        !.uhf_band_start = None,
        !.wasted_uhf_band = @ + WastedDelta(potential_transfer, needed),
        !.sent_summaries = @ + SentDelta(potential_transfer, needed)]

\* Variant of the accrual that also fills the stored_telemetry field of
\* line 69 from the detailed-frame constants of lines 24-25 (same size and
\* period as the summary frames).
Accrued_AlsoTelemetry(r) ==
    [state EXCEPT !.stored_summaries = @ + SummaryAccrual(r.duration),
                  !.stored_telemetry = @ + SummaryAccrual(r.duration)]

\* Variant of the accrual in which the start_simulation return of line 228
\* comes before the accrual of line 223.
Accrued_SkipStartSimulation(r) ==
    IF r.event = E_START_SIMULATION
      THEN state
      ELSE [state EXCEPT !.stored_summaries = @ + SummaryAccrual(r.duration)]

\* The state after line 223 of process_row.
Accrued(r) ==
    [state EXCEPT !.stored_summaries = @ + SummaryAccrual(r.duration)]

\* Variant of the loop that catches the ValueError and goes on to the next
\* row.
Read_AfterError(r) ==
    /\ status \in {"running", "raised"}
    /\ rows_read < MaxRows
    /\ row' = r
    /\ rows_read' = rows_read + 1
    /\ prev' = state

\* The reader yields row r and process_row starts on it.
Read(r) ==
    /\ status = "running"
    /\ rows_read < MaxRows
    /\ row' = r
    /\ rows_read' = rows_read + 1
    /\ prev' = state

\* process_row returns normally with mission state st.
Return(st, bump) ==
    /\ state' = st
    /\ ROW_IDX' = IF bump THEN ROW_IDX + 1 ELSE ROW_IDX
    /\ UNCHANGED <<status, error>>

\* process_row raises ValueError; the mission state is left as st.  The
\* message of check_is_opened / check_is_closed names ROW_IDX (row_idx is
\* Some(ROW_IDX)); the message of line 289 names no row (row_idx is None).
Raise(st, kind, row_idx) ==
    /\ state' = st
    /\ status' = "raised"
    /\ error' = Some([kind |-> kind, row_idx |-> row_idx])
    /\ UNCHANGED ROW_IDX

\* ---------------------------------------------------------------- actions
StartSimulation(r) ==
    /\ r.event = E_START_SIMULATION
    /\ Read(r)
    /\ Return(Accrued(r), FALSE)
    /\ UNCHANGED hist

PrepOrShadow(r) ==
    /\ r.event \in PrepEvents \cup ShadowEvents
    /\ Read(r)
    /\ Return(Accrued(r), TRUE)
    /\ UNCHANGED hist

RdaStart(r) ==
    /\ r.event = E_RDA_START
    /\ Read(r)
    /\ IF check_is_closed(state.rda_start)
         THEN /\ Return([Accrued(r) EXCEPT !.rda_start = Some(r.time)], TRUE)
              /\ opens' = [opens EXCEPT !["rda"] = @ + 1]
              /\ UNCHANGED <<closes, session_seconds, negative_elapsed>>
         ELSE /\ Raise(Accrued(r), "session_protocol", Some(ROW_IDX))
              /\ UNCHANGED hist

RdaEnd(r) ==
    /\ r.event = E_RDA_END
    /\ Read(r)
    /\ IF check_is_opened(state.rda_start)
         THEN /\ Return([Accrued(r) EXCEPT
                            !.rda_start = None,
                            !.total_images = @ + PHOTOS_DURING_RDA,
                            !.stored_image_data = @ + BurstImageData], TRUE)
              /\ closes' = [closes EXCEPT !["rda"] = @ + 1]
              /\ UNCHANGED <<opens, session_seconds, negative_elapsed>>
         ELSE /\ Raise(Accrued(r), "session_protocol", Some(ROW_IDX))
              /\ UNCHANGED hist

SBandComStart(r) ==
    /\ r.event = E_S_BAND_COM_START
    /\ Read(r)
    /\ IF check_is_closed(state.s_band_start)
         THEN /\ Return([Accrued(r) EXCEPT !.s_band_start = Some(r.time)], TRUE)
              /\ opens' = [opens EXCEPT !["s_band"] = @ + 1]
              /\ UNCHANGED <<closes, session_seconds, negative_elapsed>>
         ELSE /\ Raise(Accrued(r), "session_protocol", Some(ROW_IDX))
              /\ UNCHANGED hist

SBandComEnd(r) ==
    /\ r.event = E_S_BAND_COM_END
    /\ Read(r)
    /\ IF check_is_opened(state.s_band_start)
         THEN LET st == Accrued(r)
                  delta == r.time - state.s_band_start[1]
                  potential_transfer == SBandPotentialTransfer(delta)
                  needed == SBandBacklog(st)
              IN  /\ Return(SBandTransfer(st, potential_transfer, needed), TRUE)
                  /\ closes' = [closes EXCEPT !["s_band"] = @ + 1]
                  /\ session_seconds' =
                        [session_seconds EXCEPT !["s_band"] = @ + delta]
                  /\ negative_elapsed' = (negative_elapsed \/ delta < 0)
                  /\ UNCHANGED opens
         ELSE /\ Raise(Accrued(r), "session_protocol", Some(ROW_IDX))
              /\ UNCHANGED hist

\* Variant of the UHF start pasted from the S-band branch with the check left
\* on the S-band marker.
UhfComStart_ChecksSBand(r) ==
    /\ r.event = E_UHF_COM_START
    /\ Read(r)
    /\ IF check_is_closed(state.s_band_start)
         THEN /\ Return([Accrued(r) EXCEPT !.uhf_band_start = Some(r.time)], TRUE)
              /\ opens' = [opens EXCEPT !["uhf"] = @ + 1]
              /\ UNCHANGED <<closes, session_seconds, negative_elapsed>>
         ELSE /\ Raise(Accrued(r), "session_protocol", Some(ROW_IDX))
              /\ UNCHANGED hist

UhfComStart(r) ==
    /\ r.event = E_UHF_COM_START
    /\ Read(r)
    /\ IF check_is_closed(state.uhf_band_start)
         THEN /\ Return([Accrued(r) EXCEPT !.uhf_band_start = Some(r.time)], TRUE)
              /\ opens' = [opens EXCEPT !["uhf"] = @ + 1]
              /\ UNCHANGED <<closes, session_seconds, negative_elapsed>>
         ELSE /\ Raise(Accrued(r), "session_protocol", Some(ROW_IDX))
              /\ UNCHANGED hist

UhfComEnd(r) ==
    /\ r.event = E_UHF_COM_END
    /\ Read(r)
    /\ IF check_is_opened(state.uhf_band_start)
         THEN LET st == Accrued(r)
                  delta == r.time - state.uhf_band_start[1]
                  potential_transfer == UhfPotentialTransfer(delta)
                  needed == UhfBacklog(st)
              IN  /\ Return(UhfTransfer(st, potential_transfer, needed), TRUE)
                  /\ closes' = [closes EXCEPT !["uhf"] = @ + 1]
                  /\ session_seconds' =
                        [session_seconds EXCEPT !["uhf"] = @ + delta]
                  /\ negative_elapsed' = (negative_elapsed \/ delta < 0)
                  /\ UNCHANGED opens
         ELSE /\ Raise(Accrued(r), "session_protocol", Some(ROW_IDX))
              /\ UNCHANGED hist

Unrecognized(r) ==
    /\ r.event = E_OTHER
    /\ Read(r)
    /\ Raise(Accrued(r), "unrecognized_event", None)
    /\ UNCHANGED hist

\* The reader is exhausted: the for loop ends and the program exits.
EndOfStream ==
    /\ status = "running"
    /\ status' = "done"
    /\ UNCHANGED <<state, ROW_IDX, row, rows_read, error, prev, hist>>

Next ==
    \/ \E r \in Rows : StartSimulation(r)
    \/ \E r \in Rows : PrepOrShadow(r)
    \/ \E r \in Rows : RdaStart(r)
    \/ \E r \in Rows : RdaEnd(r)
    \/ \E r \in Rows : SBandComStart(r)
    \/ \E r \in Rows : SBandComEnd(r)
    \/ \E r \in Rows : UhfComStart(r)
    \/ \E r \in Rows : UhfComEnd(r)
    \/ \E r \in Rows : Unrecognized(r)
    \/ EndOfStream

Spec == Init /\ [][Next]_vars

\* ------------------------------------------------- vocabulary of the claims
\* A row has been processed and process_row returned normally on it.
Processed == rows_read > 0 /\ status # "raised"

\* process_row raised on the last row, with the given kind of error.
Failed(kind) ==
    rows_read > 0 /\ status = "raised" /\ error # None /\ error[1].kind = kind

\* The seven counters of the mission state the spec names.
Counters(st) ==
    <<st.stored_summaries, st.sent_summaries, st.stored_image_data,
      st.sent_image_data, st.wasted_s_band, st.wasted_uhf_band,
      st.total_images>>

\* The last row closed the S-band / UHF session successfully.
SBandClosed ==
    Processed /\ row.event = E_S_BAND_COM_END /\ prev.s_band_start # None
UhfClosed ==
    Processed /\ row.event = E_UHF_COM_END /\ prev.uhf_band_start # None
RdaClosed ==
    Processed /\ row.event = E_RDA_END /\ prev.rda_start # None

\* Capacity, outstanding backlog and the two increments of the last close.
SBandCapacity == SBAND_BPS * (row.time - prev.s_band_start[1])
SBandNeeded == state.stored_image_data - prev.sent_image_data
SBandSent == state.sent_image_data - prev.sent_image_data
SBandWasted == state.wasted_s_band - prev.wasted_s_band
UhfCapacity == UHF_BPS * (row.time - prev.uhf_band_start[1])
UhfNeeded == state.stored_summaries - prev.sent_summaries
UhfSent == state.sent_summaries - prev.sent_summaries
UhfWasted == state.wasted_uhf_band - prev.wasted_uhf_band

\* ------------------------------------------------------------------ claims

\* C1: after every processed event, sent_summaries <= stored_summaries and
\* sent_image_data <= stored_image_data.
C1_SentAtMostStored ==
    /\ state.sent_summaries <= state.stored_summaries
    /\ state.sent_image_data <= state.stored_image_data

\* C1 witness: an S-band close has drained a non-empty image backlog
\* completely, while summaries are still outstanding.
C1_Witness ==
    /\ SBandClosed
    /\ state.stored_image_data > 0
    /\ state.sent_image_data = state.stored_image_data
    /\ state.sent_summaries < state.stored_summaries

\* C2: for each subsystem, a start event while its session is open raises a
\* session-protocol error, and an end event while it is closed raises one.
C2_ProtocolViolationRaises ==
    rows_read > 0 =>
        /\ (row.event = E_RDA_START /\ prev.rda_start # None)
                => Failed("session_protocol")
        /\ (row.event = E_RDA_END /\ prev.rda_start = None)
                => Failed("session_protocol")
        /\ (row.event = E_S_BAND_COM_START /\ prev.s_band_start # None)
                => Failed("session_protocol")
        /\ (row.event = E_S_BAND_COM_END /\ prev.s_band_start = None)
                => Failed("session_protocol")
        /\ (row.event = E_UHF_COM_START /\ prev.uhf_band_start # None)
                => Failed("session_protocol")
        /\ (row.event = E_UHF_COM_END /\ prev.uhf_band_start = None)
                => Failed("session_protocol")

\* C2 witness (Scenario E): the second of two S-band starts, with no S-band
\* end between them, has raised.
C2_Witness ==
    /\ Failed("session_protocol")
    /\ row.event = E_S_BAND_COM_START
    /\ prev.s_band_start # None
    /\ opens["s_band"] = 1
    /\ closes["s_band"] = 0

\* C3: for each subsystem, at every prefix of the stream, the successful
\* closes do not outnumber the successful opens.
C3_ClosesAtMostOpens == \A s \in Subsystems : closes[s] <= opens[s]

\* C3 witness: a session was opened and closed, and a further end event for
\* it has been refused.
C3_Witness ==
    /\ Failed("session_protocol")
    /\ row.event = E_UHF_COM_END
    /\ closes["uhf"] = 1
    /\ opens["uhf"] = 1

\* C4 (as claimed): an rda_end while the acquisition session is closed raises
\* a session-protocol error and leaves every counter as it was before the row.
C4_FailedRdaEndChangesNothing ==
    (rows_read > 0 /\ row.event = E_RDA_END /\ prev.rda_start = None) =>
        /\ Failed("session_protocol")
        /\ Counters(state) = Counters(prev)

\* C5 (as claimed): a downlink end whose timestamp precedes the session's
\* start raises an error instead of updating the sent and wasted counters.
C5_NegativeElapsedRaises ==
    rows_read > 0 =>
        /\ (/\ row.event = E_S_BAND_COM_END
            /\ prev.s_band_start # None
            /\ row.time < prev.s_band_start[1])
                => (status = "raised"
                    /\ state.sent_image_data = prev.sent_image_data
                    /\ state.wasted_s_band = prev.wasted_s_band)
        /\ (/\ row.event = E_UHF_COM_END
            /\ prev.uhf_band_start # None
            /\ row.time < prev.uhf_band_start[1])
                => (status = "raised"
                    /\ state.sent_summaries = prev.sent_summaries
                    /\ state.wasted_uhf_band = prev.wasted_uhf_band)

\* C6 (as claimed): on a row processed without error, no counter decreases.
C6_CountersNeverDecrease ==
    Processed =>
        \A i \in 1..7 : Counters(state)[i] >= Counters(prev)[i]

\* C7: on a successful downlink close with non-negative capacity and needed,
\* sent grows by min(needed, capacity) and wasted by max(capacity - needed, 0);
\* both are non-negative and sent grows by at most capacity and at most needed.
TransferSplit(capacity, needed, sent, wasted) ==
    (capacity >= 0 /\ needed >= 0) =>
        /\ IF needed <= capacity
             THEN sent = needed /\ wasted = capacity - needed
             ELSE sent = capacity /\ wasted = 0
        /\ sent >= 0
        /\ wasted >= 0
        /\ sent <= capacity
        /\ sent <= needed

C7_TransferSplit ==
    /\ SBandClosed =>
         TransferSplit(SBandCapacity, SBandNeeded, SBandSent, SBandWasted)
    /\ UhfClosed =>
         TransferSplit(UhfCapacity, UhfNeeded, UhfSent, UhfWasted)

\* C7 witness: a UHF close whose capacity is positive and smaller than the
\* outstanding summary backlog (a partial transfer).
C7_Witness ==
    /\ UhfClosed
    /\ UhfCapacity > 0
    /\ UhfCapacity < UhfNeeded
    /\ UhfSent = UhfCapacity

\* C8 (as claimed): for non-negative capacity and needed,
\* sent_delta + wasted_delta >= capacity holds iff needed <= capacity.
C8_SumCoversCapacityIffNeededFits ==
    /\ (SBandClosed /\ SBandCapacity >= 0 /\ SBandNeeded >= 0) =>
         ((SBandSent + SBandWasted >= SBandCapacity)
             <=> (SBandNeeded <= SBandCapacity))
    /\ (UhfClosed /\ UhfCapacity >= 0 /\ UhfNeeded >= 0) =>
         ((UhfSent + UhfWasted >= UhfCapacity)
             <=> (UhfNeeded <= UhfCapacity))

\* C8 (amended): for non-negative capacity and needed,
\* sent_delta + wasted_delta equals capacity, so it is >= capacity whether or
\* not needed <= capacity.
C8_SumEqualsCapacity ==
    /\ (SBandClosed /\ SBandCapacity >= 0 /\ SBandNeeded >= 0) =>
         SBandSent + SBandWasted = SBandCapacity
    /\ (UhfClosed /\ UhfCapacity >= 0 /\ UhfNeeded >= 0) =>
         UhfSent + UhfWasted = UhfCapacity

\* C8 witness: an S-band close whose backlog exceeds its positive capacity,
\* where the sum still reaches the capacity.
C8_Witness ==
    /\ SBandClosed
    /\ SBandCapacity > 0
    /\ SBandNeeded > SBandCapacity
    /\ SBandSent + SBandWasted >= SBandCapacity

\* C9: an S-band close with outstanding backlog B < capacity C adds exactly B
\* to sent_image_data and C - B to wasted_s_band; with B = 0 and a 60-second
\* session sent_image_data is unchanged and wasted_s_band grows by rate * 60.
C9_SBandBacklogBelowCapacity ==
    SBandClosed =>
        LET B == prev.stored_image_data - prev.sent_image_data
            C == SBAND_BPS * (row.time - prev.s_band_start[1])
        IN  /\ B < C =>
                /\ state.sent_image_data = prev.sent_image_data + B
                /\ state.wasted_s_band = prev.wasted_s_band + (C - B)
            /\ (B = 0 /\ row.time - prev.s_band_start[1] = 60) =>
                /\ state.sent_image_data = prev.sent_image_data
                /\ state.wasted_s_band = prev.wasted_s_band + SBAND_BPS * 60

\* C9 witness (Scenario C): an S-band close with a positive backlog smaller
\* than the session's capacity.
C9_Witness ==
    /\ SBandClosed
    /\ prev.stored_image_data - prev.sent_image_data > 0
    /\ prev.stored_image_data - prev.sent_image_data
          < SBAND_BPS * (row.time - prev.s_band_start[1])

\* C10: every successful acquisition close adds exactly the photos-per-burst
\* constant to total_images and raw burst size / compression rate to
\* stored_image_data, whatever the elapsed time; total_images is always
\* photos-per-burst times the number of successful acquisition closes.
C10_BurstAccrual ==
    /\ RdaClosed =>
         /\ state.total_images = prev.total_images + PHOTOS_DURING_RDA
         /\ state.stored_image_data = prev.stored_image_data
              + FixedPoint(PHOTOS_DURING_RDA * BITS_PER_PIXEL * IMAGE_SIZE,
                           LOSSY_COMPRESSION_RATE)
    /\ state.total_images = PHOTOS_DURING_RDA * closes["rda"]

\* C10 witness: the second acquisition session has closed, its end stamped
\* earlier than its start.
C10_Witness ==
    /\ RdaClosed
    /\ closes["rda"] = 2
    /\ row.time < prev.rda_start[1]

\* The kinds process_row ignores after the accrual.
IgnoredEvents == {E_START_SIMULATION} \cup PrepEvents \cup ShadowEvents

\* C11: a row of any kind in the closed set, in any session state, whether
\* it is then accepted or refused, adds exactly
\* frame size * (duration / collection period) to stored_summaries.
C11_SummaryAccrualEveryRow ==
    (rows_read > 0 /\ row.event \in Events \ {E_OTHER}) =>
        state.stored_summaries - prev.stored_summaries
            = (1400 * row.duration * 39) \div (10 * 20)

\* C11 witness: a start_simulation row of one hour, read while the
\* acquisition session is open, has accrued its summaries.
C11_Witness ==
    /\ Processed
    /\ row.event = E_START_SIMULATION
    /\ row.duration = 3600
    /\ prev.rda_start # None
    /\ state.stored_summaries > prev.stored_summaries

\* C12: a row of duration 0 whose kind is start_simulation, prep or shadow
\* leaves every counter, stored_summaries included, and every session marker
\* as it was.
C12_ZeroDurationNoOp ==
    (rows_read > 0 /\ row.duration = 0 /\ row.event \in IgnoredEvents) =>
        /\ status # "raised"
        /\ state = prev

\* C12 witness: a zero-duration shadow row read with a session open and
\* summaries already stored.
C12_Witness ==
    /\ Processed
    /\ row.duration = 0
    /\ row.event = E_SHADOW_ENTER
    /\ prev.s_band_start # None
    /\ prev.stored_summaries > 0

\* C14 (as claimed): whenever process_row raises on a row, the error carries
\* a row index equal to the position of that row in the stream.
C14_ErrorCarriesRowPosition ==
    (rows_read > 0 /\ status = "raised") =>
        /\ error # None
        /\ error[1].row_idx = Some(rows_read)

\* C15: a row whose kind is outside the closed set raises an
\* unrecognized-event error at that row, and once an error has been raised no
\* later row is processed and nothing of the state changes any more.
C15_UnrecognizedRaisesAndErrorsAbort ==
    /\ [](rows_read > 0 /\ row.event \notin Events \ {E_OTHER}
            => Failed("unrecognized_event"))
    /\ [][status = "raised" => vars' = vars]_vars

\* C15 witness: the second row of a stream was of an unknown kind and raised,
\* with rows left that the reader could still yield.
C15_Witness ==
    /\ Failed("unrecognized_event")
    /\ row.event = E_OTHER
    /\ rows_read = 2
    /\ rows_read < MaxRows

\* C16: a successful S-band close leaves sent_summaries and wasted_uhf_band
\* as they were, a successful UHF close leaves sent_image_data and
\* wasted_s_band as they were, and neither changes stored_image_data or
\* total_images.
C16_CloseTouchesOwnCounters ==
    /\ SBandClosed =>
         /\ state.sent_summaries = prev.sent_summaries
         /\ state.wasted_uhf_band = prev.wasted_uhf_band
         /\ state.stored_image_data = prev.stored_image_data
         /\ state.total_images = prev.total_images
    /\ UhfClosed =>
         /\ state.sent_image_data = prev.sent_image_data
         /\ state.wasted_s_band = prev.wasted_s_band
         /\ state.stored_image_data = prev.stored_image_data
         /\ state.total_images = prev.total_images

\* C16 witness: a UHF close that sent summaries and wasted capacity while an
\* image backlog was outstanding.
C16_Witness ==
    /\ UhfClosed
    /\ UhfSent > 0
    /\ UhfWasted > 0
    /\ prev.stored_image_data > prev.sent_image_data

\* C17: a start_simulation, prep or shadow row changes nothing of the mission
\* state but stored_summaries: the three session markers and every other
\* counter keep their values.
C17_IgnoredRowsTouchOnlySummaries ==
    (rows_read > 0 /\ row.event \in IgnoredEvents) =>
        /\ status # "raised"
        /\ state = [prev EXCEPT !.stored_summaries = state.stored_summaries]

\* C17 witness: a prep row of one hour read with the acquisition and S-band
\* sessions open.
C17_Witness ==
    /\ Processed
    /\ row.event = E_PREP_START_UHF
    /\ row.duration = 3600
    /\ prev.rda_start # None
    /\ prev.s_band_start # None
    /\ state.stored_summaries > prev.stored_summaries

\* The start and end kinds of each subsystem, and its session marker in a
\* mission state.
StartEvent(s) ==
    CASE s = "rda" -> E_RDA_START
      [] s = "s_band" -> E_S_BAND_COM_START
      [] s = "uhf" -> E_UHF_COM_START
EndEvent(s) ==
    CASE s = "rda" -> E_RDA_END
      [] s = "s_band" -> E_S_BAND_COM_END
      [] s = "uhf" -> E_UHF_COM_END
Marker(st, s) ==
    CASE s = "rda" -> st.rda_start
      [] s = "s_band" -> st.s_band_start
      [] s = "uhf" -> st.uhf_band_start

\* C18: a start or end event of a subsystem is refused or accepted according
\* to that subsystem's own marker alone, and an accepted start sets that
\* marker and leaves the two other markers as they were, so sessions of
\* different subsystems may be open together.
C18_SessionsIndependent ==
    rows_read > 0 =>
        \A s \in Subsystems :
            /\ row.event = StartEvent(s) =>
                 /\ Failed("session_protocol") <=> Marker(prev, s) # None
                 /\ status # "raised" => Marker(state, s) = Some(row.time)
                 /\ \A o \in Subsystems \ {s} :
                        Marker(state, o) = Marker(prev, o)
            /\ row.event = EndEvent(s) =>
                 /\ Failed("session_protocol") <=> Marker(prev, s) = None
                 /\ status # "raised" => Marker(state, s) = None
                 /\ \A o \in Subsystems \ {s} :
                        Marker(state, o) = Marker(prev, o)

\* C18 witness: the UHF start was accepted while the acquisition and S-band
\* sessions were open, so all three sessions are open together.
C18_Witness ==
    /\ Processed
    /\ row.event = E_UHF_COM_START
    /\ prev.rda_start # None
    /\ prev.s_band_start # None
    /\ state.rda_start # None
    /\ state.s_band_start # None
    /\ state.uhf_band_start # None

C20_LinkCapacityConserved ==
    ~negative_elapsed =>
        /\ state.sent_image_data + state.wasted_s_band
             = SBAND_BPS * session_seconds["s_band"]
        /\ state.sent_summaries + state.wasted_uhf_band
             = UHF_BPS * session_seconds["uhf"]

\* C20 witness: one UHF session has closed, having sent and wasted bits, and
\* a second UHF session is open.
C20_Witness ==
    /\ ~negative_elapsed
    /\ closes["uhf"] = 1
    /\ state.uhf_band_start # None
    /\ state.sent_summaries > 0
    /\ state.wasted_uhf_band > 0
    /\ status = "running"

====
